---- MODULE Spec2Model ----
(***************************************************************************)
(* The grouped-iteration ("tablerow") construct of                         *)
(* liquid/builtin/tags/tablerow_tag.py: the loop-metadata object TableRow, *)
(* the namespace adapter TableRowDrop with its pending closing markup, and *)
(* the interpreter path TablerowNode.render_to_output.                     *)
(*                                                                         *)
(* Output buffers are strings; every write appends the exact text that     *)
(* the code writes, so two runs agree iff their output is byte-identical.  *)
(***************************************************************************)
EXTENDS Integers, Sequences, FiniteSets, TLC

VARIABLES
    \* ---- a TableRowDrop driven call by call
    args,        \* the constructor's arguments [name, length, ncols]
    pc,          \* "new" | "live" | "raised"; buffered protocol: "p_wait" | "p_step" | "p_body" | "p_done"
    drop,        \* the TableRowDrop (tablerow, name, _exit), NoObject before construction
    buffer,      \* the TextIO the drop writes to
    error,       \* the exception the constructor raised, "none" otherwise
    nsteps,      \* number of TableRow.step calls made on drop.tablerow
    \* ---- one activation of TablerowNode.render_to_output
    expression,  \* the LoopExpression: name, evaluated items, cols expression
    rpc,         \* position inside render_to_output, "idle" when not running
    loop_items,  \* list(self.expression.evaluate(context))
    cols,        \* the local cols
    loop_iter,   \* the tuple of rows
    i,           \* enumerate index of the outer loop
    j,           \* enumerate index of the inner loop
    rdrop,       \* the TableRowDrop render_to_output creates
    rbuffer,     \* the TextIO render_to_output writes to
    rerror,      \* the exception that aborted render_to_output, "none" otherwise
    rsteps,      \* number of drop.step calls render_to_output has made
    \* ---- a mapping lookup on the drop or on its TableRow
    ret,         \* what the last lookup returned or raised, NoReturn after any other call
    \* ---- one activation of TablerowNode.compile_node, and the VM that runs its output
    body,        \* self.block: the names the child body references, in order
    compiler,    \* the Compiler: its scope stack (instructions, symbol table) and constant pool
    cnode,       \* compile_node's position and local variables
    vm           \* the virtual machine: frames, operand stack, output buffer, drop

dropVars == <<args, pc, drop, buffer, error, nsteps>>
renderVars == <<expression, rpc, loop_items, cols, loop_iter, i, j, rdrop, rbuffer, rerror, rsteps>>
lookupVars == <<ret>>
compileVars == <<body, compiler, cnode>>
vmVars == <<vm>>
vars == <<args, pc, drop, buffer, error, nsteps,
          expression, rpc, loop_items, cols, loop_iter, i, j, rdrop, rbuffer, rerror, rsteps,
          ret, body, compiler, cnode, vm>>

(***************************************************************************)
(* Bounds of the model.                                                    *)
(***************************************************************************)
MaxLength == 5      \* largest length argument given to a TableRowDrop driven call by call
MaxCols == 3        \* largest group size
MaxSteps == 6       \* most step calls made on one TableRowDrop driven call by call
MaxItems == 5       \* longest source sequence rendered
LoopIterationLimit == 3   \* the environment's configured maximum iteration count

Items == {"a", "b"}
Names == {"x"}
NoneValue == "None"
ColsRange == (-1)..MaxCols

NoObject == [made |-> FALSE]
NoReturn == [called |-> "none"]

(***************************************************************************)
(* Python arithmetic on integers.                                          *)
(***************************************************************************)
\* a % b for b # 0: the result takes the sign of the divisor
PyMod(a, b) == IF b > 0 THEN a % b ELSE -((-a) % (-b))

\* math.ceil(a / b) for b # 0
PyCeilDiv(a, b) == IF b > 0 THEN -((-a) \div b) ELSE -(a \div (-b))

(***************************************************************************)
(* class TableRow                                                          *)
(***************************************************************************)
\* the exception TableRow.__init__ raises, "none" when it returns
TableRow_raises(length, ncols) ==
    IF ncols = 0 THEN "ZeroDivisionError" ELSE "none"

\* TableRow.__init__ with the row count rounded down instead of up
TableRow_FloorRows(name, length, ncols) ==
    [made |-> TRUE,
     name |-> name,
     length |-> length,
     ncols |-> ncols,
     item |-> NoneValue,
     first |-> FALSE,
     last |-> FALSE,
     index |-> 0,
     index0 |-> -1,
     rindex |-> length + 1,
     rindex0 |-> length,
     col |-> 0,
     col0 |-> -1,
     col_first |-> TRUE,
     col_last |-> FALSE,
     row |-> 0,
     nrows |-> IF ncols > 0 THEN length \div ncols ELSE -(length \div (-ncols))]

\* TableRow.__init__ with rindex started at length instead of length + 1
TableRow_RindexFromLength(name, length, ncols) ==
    [made |-> TRUE,
     name |-> name,
     length |-> length,
     ncols |-> ncols,
     item |-> NoneValue,
     first |-> FALSE,
     last |-> FALSE,
     index |-> 0,
     index0 |-> -1,
     rindex |-> length,
     rindex0 |-> length,
     col |-> 0,
     col0 |-> -1,
     col_first |-> TRUE,
     col_last |-> FALSE,
     row |-> 0,
     nrows |-> PyCeilDiv(length, ncols)]

\* TableRow.__init__ when it returns
TableRow(name, length, ncols) ==
    [made |-> TRUE,
     name |-> name,
     length |-> length,
     ncols |-> ncols,
     item |-> NoneValue,
     first |-> FALSE,
     last |-> FALSE,
     index |-> 0,
     index0 |-> -1,
     rindex |-> length + 1,
     rindex0 |-> length,
     col |-> 0,
     col0 |-> -1,
     col_first |-> TRUE,
     col_last |-> FALSE,
     row |-> 0,
     nrows |-> PyCeilDiv(length, ncols)]

\* TableRow.step with last taken from rindex instead of rindex0
TableRow_step_LastFromRindex(self, item) ==
    LET index == self.index + 1
        index0 == self.index0 + 1
        rindex == self.rindex - 1
        rindex0 == self.rindex0 - 1
        col0 == PyMod(index0, self.ncols)
        col == col0 + 1
    IN [self EXCEPT
          !.item = item,
          !.index = index,
          !.index0 = index0,
          !.rindex = rindex,
          !.rindex0 = rindex0,
          !.first = (index0 = 0),
          !.last = (rindex = 0),
          !.col0 = col0,
          !.col = col,
          !.col_first = (col = 1),
          !.col_last = (col = self.ncols),
          !.row = IF col = 1 THEN self.row + 1 ELSE self.row]

\* TableRow.step with col_last compared against col0 instead of col
TableRow_step_ColLastFromCol0(self, item) ==
    LET index == self.index + 1
        index0 == self.index0 + 1
        rindex == self.rindex - 1
        rindex0 == self.rindex0 - 1
        col0 == PyMod(index0, self.ncols)
        col == col0 + 1
    IN [self EXCEPT
          !.item = item,
          !.index = index,
          !.index0 = index0,
          !.rindex = rindex,
          !.rindex0 = rindex0,
          !.first = (index0 = 0),
          !.last = (rindex0 = 0),
          !.col0 = col0,
          !.col = col,
          !.col_first = (col = 1),
          !.col_last = (col0 = self.ncols),
          !.row = IF col = 1 THEN self.row + 1 ELSE self.row]

\* TableRow.step with row advanced at the last column of a group instead of the first
TableRow_step_RowOnColLast(self, item) ==
    LET index == self.index + 1
        index0 == self.index0 + 1
        rindex == self.rindex - 1
        rindex0 == self.rindex0 - 1
        col0 == PyMod(index0, self.ncols)
        col == col0 + 1
    IN [self EXCEPT
          !.item = item,
          !.index = index,
          !.index0 = index0,
          !.rindex = rindex,
          !.rindex0 = rindex0,
          !.first = (index0 = 0),
          !.last = (rindex0 = 0),
          !.col0 = col0,
          !.col = col,
          !.col_first = (col = 1),
          !.col_last = (col = self.ncols),
          !.row = IF col = self.ncols THEN self.row + 1 ELSE self.row]

\* TableRow.step
TableRow_step(self, item) ==
    LET index == self.index + 1
        index0 == self.index0 + 1
        rindex == self.rindex - 1
        rindex0 == self.rindex0 - 1
        col0 == PyMod(index0, self.ncols)
        col == col0 + 1
    IN [self EXCEPT
          !.item = item,
          !.index = index,
          !.index0 = index0,
          !.rindex = rindex,
          !.rindex0 = rindex0,
          !.first = (index0 = 0),
          !.last = (rindex0 = 0),
          !.col0 = col0,
          !.col = col,
          !.col_first = (col = 1),
          !.col_last = (col = self.ncols),
          !.row = IF col = 1 THEN self.row + 1 ELSE self.row]

(***************************************************************************)
(* class TableRowDrop                                                      *)
(***************************************************************************)
\* TableRowDrop.__init__ when it returns (it raises what TableRow.__init__ raises)
TableRowDrop(name, length, ncols) ==
    [made |-> TRUE,
     tablerow |-> TableRow(name, length, ncols),
     name |-> name,
     exit |-> <<>>]

\* TableRowDrop.step
TableRowDrop_step(self, item) ==
    [self EXCEPT !.tablerow = TableRow_step(self.tablerow, item)]

\* TableRowDrop.empty_exit_buffer: the pair (drop, buffer) after the call
empty_exit_buffer(self, buf) ==
    IF self.exit # <<>>
    THEN [drop |-> [self EXCEPT !.exit = SubSeq(self.exit, 1, Len(self.exit) - 1)],
          buffer |-> buf \o self.exit[Len(self.exit)]]
    ELSE [drop |-> self, buffer |-> buf]

\* TableRowDrop.step_write closing the row only at a full group, not at the last item
step_write_NoLastClose(self, item, buf) ==
    LET flushed == empty_exit_buffer(self, buf)
        stepped == TableRowDrop_step(flushed.drop, item)
        tr == stepped.tablerow
        b1 == IF tr.col = 1 /\ tr.row <= tr.nrows
              THEN flushed.buffer \o "<tr class=\"row" \o ToString(tr.row) \o "\">"
              ELSE flushed.buffer
        b2 == b1 \o "<td class=\"col" \o ToString(tr.col) \o "\">"
        closing == IF tr.col = tr.ncols
                   THEN "</td></tr>"
                   ELSE "</td>"
    IN [drop |-> [stepped EXCEPT !.exit = Append(stepped.exit, closing)],
        buffer |-> b2]

\* TableRowDrop.step_write that writes its tags before stepping the metadata
step_write_StepsLate(self, item, buf) ==
    LET flushed == empty_exit_buffer(self, buf)
        old == flushed.drop.tablerow
        stepped == TableRowDrop_step(flushed.drop, item)
        tr == stepped.tablerow
        b1 == IF old.col = 1 /\ old.row <= old.nrows
              THEN flushed.buffer \o "<tr class=\"row" \o ToString(old.row) \o "\">"
              ELSE flushed.buffer
        b2 == b1 \o "<td class=\"col" \o ToString(old.col) \o "\">"
        closing == IF tr.col = tr.ncols \/ tr.index = tr.length
                   THEN "</td></tr>"
                   ELSE "</td>"
    IN [drop |-> [stepped EXCEPT !.exit = Append(stepped.exit, closing)],
        buffer |-> b2]

\* TableRowDrop.step_write that does not flush the pending closing markup first
step_write_NoFlush(self, item, buf) ==
    LET stepped == TableRowDrop_step(self, item)
        tr == stepped.tablerow
        b1 == IF tr.col = 1 /\ tr.row <= tr.nrows
              THEN buf \o "<tr class=\"row" \o ToString(tr.row) \o "\">"
              ELSE buf
        b2 == b1 \o "<td class=\"col" \o ToString(tr.col) \o "\">"
        closing == IF tr.col = tr.ncols \/ tr.index = tr.length
                   THEN "</td></tr>"
                   ELSE "</td>"
    IN [drop |-> [stepped EXCEPT !.exit = Append(stepped.exit, closing)],
        buffer |-> b2]

\* TableRowDrop.step_write: the pair (drop, buffer) after the call
step_write(self, item, buf) ==
    LET flushed == empty_exit_buffer(self, buf)
        stepped == TableRowDrop_step(flushed.drop, item)
        tr == stepped.tablerow
        b1 == IF tr.col = 1 /\ tr.row <= tr.nrows
              THEN flushed.buffer \o "<tr class=\"row" \o ToString(tr.row) \o "\">"
              ELSE flushed.buffer
        b2 == b1 \o "<td class=\"col" \o ToString(tr.col) \o "\">"
        closing == IF tr.col = tr.ncols \/ tr.index = tr.length
                   THEN "</td></tr>"
                   ELSE "</td>"
    IN [drop |-> [stepped EXCEPT !.exit = Append(stepped.exit, closing)],
        buffer |-> b2]

(***************************************************************************)
(* A TableRowDrop driven call by call: construction, then any interleaving *)
(* of step, step_write and empty_exit_buffer.                              *)
(***************************************************************************)
RenderIdle ==
    /\ expression = [name |-> "x", items |-> <<>>, cols |-> [kind |-> "absent", val |-> 0]]
    /\ rpc = "idle"
    /\ loop_items = <<>>
    /\ cols = 0
    /\ loop_iter = <<>>
    /\ i = 0
    /\ j = 0
    /\ rdrop = NoObject
    /\ rbuffer = ""
    /\ rerror = "none"
    /\ rsteps = 0

CompilerIdle ==
    /\ body = <<>>
    /\ compiler = [scopes |-> <<>>, constants |-> <<>>]
    /\ cnode = [pc |-> "idle"]
    /\ vm = [pc |-> "idle"]

Init ==
    /\ args \in [name : Names, length : 0..MaxLength, ncols : ColsRange]
    /\ pc = "new"
    /\ drop = NoObject
    /\ buffer = ""
    /\ error = "none"
    /\ nsteps = 0
    /\ RenderIdle
    /\ ret = NoReturn
    /\ CompilerIdle

\* drop = TableRowDrop(name, length, ncols)
New ==
    /\ pc = "new"
    /\ LET e == TableRow_raises(args.length, args.ncols)
       IN IF e # "none"
          THEN /\ error' = e
               /\ pc' = "raised"
               /\ drop' = drop
          ELSE /\ drop' = TableRowDrop(args.name, args.length, args.ncols)
               /\ pc' = "live"
               /\ error' = error
    /\ UNCHANGED <<args, buffer, nsteps>>
    /\ UNCHANGED renderVars
    /\ ret' = NoReturn
    /\ UNCHANGED compileVars
    /\ UNCHANGED vmVars

\* drop.step(item)
Step ==
    /\ pc = "live"
    /\ nsteps < MaxSteps
    /\ \E item \in Items : drop' = TableRowDrop_step(drop, item)
    /\ nsteps' = nsteps + 1
    /\ UNCHANGED <<args, pc, buffer, error>>
    /\ UNCHANGED renderVars
    /\ ret' = NoReturn
    /\ UNCHANGED compileVars
    /\ UNCHANGED vmVars

\* drop.step_write(item, buffer)
StepWrite ==
    /\ pc = "live"
    /\ nsteps < MaxSteps
    /\ \E item \in Items :
         LET r == step_write(drop, item, buffer)
         IN /\ drop' = r.drop
            /\ buffer' = r.buffer
    /\ nsteps' = nsteps + 1
    /\ UNCHANGED <<args, pc, error>>
    /\ UNCHANGED renderVars
    /\ ret' = NoReturn
    /\ UNCHANGED compileVars
    /\ UNCHANGED vmVars

\* drop.empty_exit_buffer(buffer)
EmptyExitBuffer ==
    /\ pc = "live"
    /\ LET r == empty_exit_buffer(drop, buffer)
       IN /\ drop' = r.drop
          /\ buffer' = r.buffer
    /\ UNCHANGED <<args, pc, error, nsteps>>
    /\ UNCHANGED renderVars
    /\ ret' = NoReturn
    /\ UNCHANGED compileVars
    /\ UNCHANGED vmVars

Next ==
    \/ New
    \/ Step
    \/ StepWrite
    \/ EmptyExitBuffer

Spec == Init /\ [][Next]_vars

(***************************************************************************)
(* The mapping interface of TableRowDrop and TableRow: the drop driven     *)
(* call by call as above, with lookups between the calls.                  *)
(***************************************************************************)
MaxLookupLength == 2    \* largest length argument when lookups are made
MaxLookupCols == 2      \* largest group size when lookups are made
MaxLookupSteps == 2     \* lookups are made after at most this many step calls

LoopNames == {"x", "tablerowloop"}

\* self.keys
TableRowKeys ==
    <<"length", "index", "index0", "rindex", "rindex0", "first", "last",
      "col", "col0", "col_first", "col_last">>

\* the keys looked up: the slots of TableRow and names that are no slot
TableRowProbes ==
    {"name", "length", "ncols", "item", "first", "last", "index", "index0",
     "rindex", "rindex0", "col", "col0", "col_first", "col_last", "keys",
     "row", "nrows", "x", "tablerowloop", "other"}

DropProbes == LoopNames \cup {"length", "other"}

\* TableRow.__getitem__ that also exposes the row counter
TableRow_getitem_ExposesRow(self, key) ==
    IF key = "row" \/ \E k \in 1..Len(TableRowKeys) : TableRowKeys[k] = key
    THEN [raises |-> "none", value |-> self[key]]
    ELSE [raises |-> "KeyError"]

\* TableRow.__getitem__
TableRow_getitem(self, key) ==
    IF \E k \in 1..Len(TableRowKeys) : TableRowKeys[k] = key
    THEN [raises |-> "none", value |-> self[key]]
    ELSE [raises |-> "KeyError"]

\* TableRowDrop.__contains__
TableRowDrop_contains(self, item) ==
    IF item \in {"tablerowloop", self.name} THEN TRUE ELSE FALSE

\* TableRowDrop.__getitem__; is names what kind of object is returned
TableRowDrop_getitem(self, key) ==
    IF key = "tablerowloop"
    THEN [raises |-> "none", is |-> "TableRow", value |-> self.tablerow]
    ELSE IF key = self.name
         THEN [raises |-> "none", is |-> "item", value |-> self.tablerow.item]
         ELSE [raises |-> "KeyError"]

InitLookup ==
    /\ args \in [name : LoopNames, length : 0..MaxLookupLength, ncols : 1..MaxLookupCols]
    /\ pc = "new"
    /\ drop = NoObject
    /\ buffer = ""
    /\ error = "none"
    /\ nsteps = 0
    /\ RenderIdle
    /\ ret = NoReturn
    /\ CompilerIdle

\* key in drop
DropContains ==
    /\ pc = "live"
    /\ nsteps <= MaxLookupSteps
    /\ \E key \in DropProbes :
         ret' = [called |-> "TableRowDrop.__contains__", key |-> key,
                 result |-> [raises |-> "none", value |-> TableRowDrop_contains(drop, key)]]
    /\ UNCHANGED dropVars
    /\ UNCHANGED renderVars
    /\ UNCHANGED compileVars
    /\ UNCHANGED vmVars

\* drop[key]
DropGetItem ==
    /\ pc = "live"
    /\ nsteps <= MaxLookupSteps
    /\ \E key \in DropProbes :
         ret' = [called |-> "TableRowDrop.__getitem__", key |-> key,
                 result |-> TableRowDrop_getitem(drop, key)]
    /\ UNCHANGED dropVars
    /\ UNCHANGED renderVars
    /\ UNCHANGED compileVars
    /\ UNCHANGED vmVars

\* drop.tablerow[key]
TableRowGetItem ==
    /\ pc = "live"
    /\ nsteps <= MaxLookupSteps
    /\ \E key \in TableRowProbes :
         ret' = [called |-> "TableRow.__getitem__", key |-> key,
                 result |-> TableRow_getitem(drop.tablerow, key)]
    /\ UNCHANGED dropVars
    /\ UNCHANGED renderVars
    /\ UNCHANGED compileVars
    /\ UNCHANGED vmVars

NextLookup ==
    \/ New
    \/ Step
    \/ StepWrite
    \/ EmptyExitBuffer
    \/ DropContains
    \/ DropGetItem
    \/ TableRowGetItem

SpecLookup == InitLookup /\ [][NextLookup]_vars

(***************************************************************************)
(* TablerowNode.render_to_output, followed by the buffered protocol on the *)
(* same inputs.                                                            *)
(***************************************************************************)
Min(a, b) == IF a <= b THEN a ELSE b

\* tuple(islice(iterable, n)) and what it leaves in the iterator, n >= 0
islice(iterable, n) == SubSeq(iterable, 1, Min(n, Len(iterable)))
islice_rest(iterable, n) == SubSeq(iterable, Min(n, Len(iterable)) + 1, Len(iterable))

\* the exception tuple(grouper(iterable, n)) raises, "none" when it returns
grouper_raises(n) == IF n < 0 THEN "ValueError" ELSE "none"

\* grouper that drops the item following each full chunk
RECURSIVE grouper_SkipsItem(_, _)
grouper_SkipsItem(iterable, n) ==
    LET chunk == islice(iterable, n)
    IN IF chunk = <<>>
       THEN <<>>
       ELSE <<chunk>> \o grouper_SkipsItem(islice_rest(iterable, n + 1), n)

\* grouper that yields one empty chunk for an empty iterable
RECURSIVE grouper_EmptyChunk(_, _)
grouper_EmptyChunk(iterable, n) ==
    LET chunk == islice(iterable, n)
    IN IF chunk = <<>>
       THEN <<chunk>>
       ELSE IF islice_rest(iterable, n) = <<>>
            THEN <<chunk>>
            ELSE <<chunk>> \o grouper_EmptyChunk(islice_rest(iterable, n), n)

\* tuple(grouper(iterable, n)), n >= 0: chunks until islice returns the sentinel ()
RECURSIVE grouper(_, _)
grouper(iterable, n) ==
    LET chunk == islice(iterable, n)
    IN IF chunk = <<>>
       THEN <<>>
       ELSE <<chunk>> \o grouper(islice_rest(iterable, n), n)

\* one row for every item instead of one row for the whole sequence
ungrouped_RowPerItem(items) == [k \in 1..Len(items) |-> <<items[k]>>]

\* line 223: loop_iter = (loop_items,)
ungrouped(items) == <<items>>

\* self.block.render(context=ctx, buffer=buffer): a child body that prints the
\* loop variable and tablerowloop.index as the extended context resolves them
block_render(ctx) ==
    "{" \o ctx.tablerow.item \o ":" \o ToString(ctx.tablerow.index) \o "}"

ColsExpressions ==
    {[kind |-> "absent", val |-> 0], [kind |-> "str", val |-> 0]}
    \cup {[kind |-> "int", val |-> v] : v \in ColsRange}

SeqsUpTo(S, n) == UNION {[1..m -> S] : m \in 0..n}

InitRender ==
    /\ expression \in [name : Names, items : SeqsUpTo(Items, MaxItems), cols : ColsExpressions]
    /\ rpc = "eval"
    /\ loop_items = <<>>
    /\ cols = 0
    /\ loop_iter = <<>>
    /\ i = 0
    /\ j = 0
    /\ rdrop = NoObject
    /\ rbuffer = ""
    /\ rerror = "none"
    /\ rsteps = 0
    /\ args = [name |-> expression.name, length |-> 0, ncols |-> 1]
    /\ pc = "p_wait"
    /\ drop = NoObject
    /\ buffer = ""
    /\ error = "none"
    /\ nsteps = 0
    /\ ret = NoReturn
    /\ CompilerIdle

\* lines 215-226: evaluate the expression, group the items, create the drop
RenderEval ==
    /\ rpc = "eval"
    /\ loop_items' = expression.items
    /\ LET n == Len(expression.items)
           c == expression.cols
       IN CASE c.kind = "absent" ->
                 /\ cols' = 1
                 /\ loop_iter' = ungrouped(expression.items)
                 /\ rdrop' = TableRowDrop(expression.name, n, 1)
                 /\ rpc' = "row"
                 /\ rerror' = rerror
            [] c.kind = "str" ->
                 \* the assert fails; with assertions stripped islice rejects the value
                 /\ rerror' \in {"AssertionError", "ValueError"}
                 /\ rpc' = "raised"
                 /\ UNCHANGED <<cols, loop_iter, rdrop>>
            [] c.kind = "int" /\ grouper_raises(c.val) # "none" ->
                 /\ cols' = c.val
                 /\ rerror' = grouper_raises(c.val)
                 /\ rpc' = "raised"
                 /\ UNCHANGED <<loop_iter, rdrop>>
            [] c.kind = "int" /\ grouper_raises(c.val) = "none"
                 /\ TableRow_raises(n, c.val) # "none" ->
                 /\ cols' = c.val
                 /\ loop_iter' = grouper(expression.items, c.val)
                 /\ rerror' = TableRow_raises(n, c.val)
                 /\ rpc' = "raised"
                 /\ rdrop' = rdrop
            [] OTHER ->
                 /\ cols' = c.val
                 /\ loop_iter' = grouper(expression.items, c.val)
                 /\ rdrop' = TableRowDrop(expression.name, n, c.val)
                 /\ rpc' = "row"
                 /\ rerror' = rerror
    /\ UNCHANGED <<expression, i, j, rbuffer, rsteps>>
    /\ UNCHANGED dropVars
    /\ UNCHANGED lookupVars
    /\ UNCHANGED compileVars
    /\ UNCHANGED vmVars

\* line 228-229: the outer loop takes row i and writes its opening tag
RenderRowOpen ==
    /\ rpc = "row"
    /\ i < Len(loop_iter)
    /\ rbuffer' = rbuffer \o "<tr class=\"row" \o ToString(i + 1) \o "\">"
    /\ j' = 0
    /\ rpc' = "cell"
    /\ UNCHANGED <<expression, loop_items, cols, loop_iter, i, rdrop, rerror, rsteps>>
    /\ UNCHANGED dropVars
    /\ UNCHANGED lookupVars
    /\ UNCHANGED compileVars
    /\ UNCHANGED vmVars

\* line 228: the outer loop is exhausted, render_to_output returns
RenderReturn ==
    /\ rpc = "row"
    /\ i >= Len(loop_iter)
    /\ rpc' = "done"
    /\ UNCHANGED <<expression, loop_items, cols, loop_iter, i, j, rdrop, rbuffer, rerror, rsteps>>
    /\ UNCHANGED dropVars
    /\ UNCHANGED lookupVars
    /\ UNCHANGED compileVars
    /\ UNCHANGED vmVars

\* lines 230-232: the inner loop takes item j of the row, steps the drop and
\* writes the opening cell tag
RenderCell ==
    /\ rpc = "cell"
    /\ j < Len(loop_iter[i + 1])
    /\ rdrop' = TableRowDrop_step(rdrop, loop_iter[i + 1][j + 1])
    /\ rsteps' = rsteps + 1
    /\ rbuffer' = rbuffer \o "<td class=\"col" \o ToString(j + 1) \o "\">"
    /\ rpc' = "body"
    /\ UNCHANGED <<expression, loop_items, cols, loop_iter, i, j, rerror>>
    /\ UNCHANGED dropVars
    /\ UNCHANGED lookupVars
    /\ UNCHANGED compileVars
    /\ UNCHANGED vmVars

\* lines 233-234: render the child body, write the closing cell tag
RenderBody ==
    /\ rpc = "body"
    /\ rbuffer' = rbuffer \o block_render(rdrop) \o "</td>"
    /\ j' = j + 1
    /\ rpc' = "cell"
    /\ UNCHANGED <<expression, loop_items, cols, loop_iter, i, rdrop, rerror, rsteps>>
    /\ UNCHANGED dropVars
    /\ UNCHANGED lookupVars
    /\ UNCHANGED compileVars
    /\ UNCHANGED vmVars

\* line 235: the inner loop is exhausted, write the closing row tag
RenderRowClose ==
    /\ rpc = "cell"
    /\ j >= Len(loop_iter[i + 1])
    /\ rbuffer' = rbuffer \o "</tr>"
    /\ i' = i + 1
    /\ rpc' = "row"
    /\ UNCHANGED <<expression, loop_items, cols, loop_iter, j, rdrop, rerror, rsteps>>
    /\ UNCHANGED dropVars
    /\ UNCHANGED lookupVars
    /\ UNCHANGED compileVars
    /\ UNCHANGED vmVars

\* The buffered protocol on the inputs render_to_output gave its own drop:
\* a TableRowDrop for the same name, length and group size,
ProtocolNew ==
    /\ pc = "p_wait"
    /\ rpc = "done"
    /\ args' = [name |-> expression.name, length |-> Len(loop_items), ncols |-> cols]
    /\ drop' = TableRowDrop(expression.name, Len(loop_items), cols)
    /\ pc' = "p_step"
    /\ UNCHANGED <<buffer, error, nsteps>>
    /\ UNCHANGED renderVars
    /\ UNCHANGED lookupVars
    /\ UNCHANGED compileVars
    /\ UNCHANGED vmVars

\* step_write once per item, in order,
ProtocolStepWrite ==
    /\ pc = "p_step"
    /\ nsteps < Len(loop_items)
    /\ LET r == step_write(drop, loop_items[nsteps + 1], buffer)
       IN /\ drop' = r.drop
          /\ buffer' = r.buffer
    /\ nsteps' = nsteps + 1
    /\ pc' = "p_body"
    /\ UNCHANGED <<args, error>>
    /\ UNCHANGED renderVars
    /\ UNCHANGED lookupVars
    /\ UNCHANGED compileVars
    /\ UNCHANGED vmVars

\* the child body written after each call,
ProtocolBody ==
    /\ pc = "p_body"
    /\ buffer' = buffer \o block_render(drop)
    /\ pc' = "p_step"
    /\ UNCHANGED <<args, drop, error, nsteps>>
    /\ UNCHANGED renderVars
    /\ UNCHANGED lookupVars
    /\ UNCHANGED compileVars
    /\ UNCHANGED vmVars

\* and the pending closing markup flushed by empty_exit_buffer.
ProtocolExit ==
    /\ pc = "p_step"
    /\ nsteps >= Len(loop_items)
    /\ LET r == empty_exit_buffer(drop, buffer)
       IN /\ drop' = r.drop
          /\ buffer' = r.buffer
    /\ pc' = "p_done"
    /\ UNCHANGED <<args, error, nsteps>>
    /\ UNCHANGED renderVars
    /\ UNCHANGED lookupVars
    /\ UNCHANGED compileVars
    /\ UNCHANGED vmVars

NextRender ==
    \/ RenderEval
    \/ RenderRowOpen
    \/ RenderReturn
    \/ RenderCell
    \/ RenderBody
    \/ RenderRowClose
    \/ ProtocolNew
    \/ ProtocolStepWrite
    \/ ProtocolBody
    \/ ProtocolExit

SpecRender == InitRender /\ [][NextRender]_vars

(***************************************************************************)
(* TablerowNode.compile_node.  The Compiler and its symbol table are       *)
(* collaborators: scopes are entered and left as a stack, define allots    *)
(* the next slot of the current scope, resolve finds a name in the current *)
(* scope or captures it from the enclosing one as a free variable, emit    *)
(* appends to the current scope's instructions.                            *)
(***************************************************************************)
MaxRefs == 2        \* most variable references in a child body

CompileNames == {"x", "u", "tablerowloop"}   \* loop variable names compiled
BodyNames == {"x", "u", "v", "tablerowloop"} \* names a child body may reference
OuterNames == <<"u", "v">>                   \* locals of the enclosing compiled scope

Instr(op, a, b) == [op |-> op, a |-> a, b |-> b]

NewScope == [instructions |-> <<>>, locals |-> <<>>, free_symbols |-> <<>>]

\* position of the last x in seq, 0 when absent
LastIndexOf(seq, x) ==
    IF \E k \in 1..Len(seq) : seq[k] = x
    THEN CHOOSE k \in 1..Len(seq) : seq[k] = x /\ \A m \in (k + 1)..Len(seq) : seq[m] # x
    ELSE 0

\* compiler.enter_scope()
enter_scope(c) == [c EXCEPT !.scopes = Append(@, NewScope)]

\* compiler.leave_scope(); the instructions it returns are current_instructions before
leave_scope(c) == [c EXCEPT !.scopes = SubSeq(@, 1, Len(@) - 1)]

\* compiler.current_instructions()
current_instructions(c) == c.scopes[Len(c.scopes)].instructions

\* compiler.symbol_table.define(name); the symbol's index is the slot allotted
define(c, name) == [c EXCEPT !.scopes[Len(c.scopes)].locals = Append(@, name)]
define_index(c, name) == Len(c.scopes[Len(c.scopes)].locals)

\* compiler.emit(op, operands)
emit(c, instr) == [c EXCEPT !.scopes[Len(c.scopes)].instructions = Append(@, instr)]

\* compiler.add_constant_block(block); the index it returns is the pool's length before
add_constant_block(c, block) == [c EXCEPT !.constants = Append(@, block)]

\* resolve a name referenced in the current scope and emit its load
resolve_and_load(c, name) ==
    LET n == Len(c.scopes)
        scope == c.scopes[n]
    IN IF LastIndexOf(scope.locals, name) # 0
       THEN emit(c, Instr("GETLOCAL", LastIndexOf(scope.locals, name) - 1, 0))
       ELSE IF n > 1 /\ LastIndexOf(c.scopes[n - 1].locals, name) # 0
            THEN IF LastIndexOf(scope.free_symbols, name) # 0
                 THEN emit(c, Instr("GETFREE", LastIndexOf(scope.free_symbols, name) - 1, 0))
                 ELSE emit([c EXCEPT !.scopes[n].free_symbols = Append(@, name)],
                           Instr("GETFREE", Len(scope.free_symbols), 0))
            ELSE emit(c, Instr("GETGLOBAL", 0, 0))

\* self.block.compile(compiler): a load per reference, then the body's output
RECURSIVE block_compile(_, _)
block_compile(c, refs) ==
    IF refs = <<>>
    THEN emit(c, Instr("BODY", 0, 0))
    ELSE block_compile(resolve_and_load(c, Head(refs)), Tail(refs))

\* compiler.load_symbol(free_symbol) in the enclosing scope
load_symbol(c, name) ==
    emit(c, Instr("GETLOCAL", LastIndexOf(c.scopes[Len(c.scopes)].locals, name) - 1, 0))

\* for free_symbol in reversed(free_symbols): compiler.load_symbol(free_symbol)
RECURSIVE load_reversed(_, _)
load_reversed(c, free_symbols) ==
    IF free_symbols = <<>>
    THEN c
    ELSE load_reversed(load_symbol(c, free_symbols[Len(free_symbols)]),
                       SubSeq(free_symbols, 1, Len(free_symbols) - 1))

\* self.expression.num_arguments()
num_arguments(e) == IF e.cols.kind = "absent" THEN 0 ELSE 1

InitCompile ==
    /\ expression \in [name : CompileNames, items : {<<>>}, cols : ColsExpressions]
    /\ body \in SeqsUpTo(BodyNames, MaxRefs)
    /\ compiler = [scopes |-> <<[NewScope EXCEPT !.locals = OuterNames]>>, constants |-> <<>>]
    /\ cnode = [pc |-> "enter", symbol |-> -1, top_of_loop |-> -1, free_symbols |-> <<>>,
                num_block_vars |-> -1, compiled_block |-> -1, error |-> "none"]
    /\ vm = [pc |-> "idle"]
    /\ rpc = "idle"
    /\ loop_items = <<>>
    /\ cols = 0
    /\ loop_iter = <<>>
    /\ i = 0
    /\ j = 0
    /\ rdrop = NoObject
    /\ rbuffer = ""
    /\ rerror = "none"
    /\ rsteps = 0
    /\ args = [name |-> expression.name, length |-> 0, ncols |-> 1]
    /\ pc = "idle"
    /\ drop = NoObject
    /\ buffer = ""
    /\ error = "none"
    /\ nsteps = 0
    /\ ret = NoReturn

CompileRest == UNCHANGED <<body, vm, ret>> /\ UNCHANGED dropVars /\ UNCHANGED renderVars

\* compile_node that declares the metadata namespace before the loop variable
CompileEnter_MetadataFirst ==
    /\ cnode.pc = "enter"
    /\ LET c1 == enter_scope(compiler)
           c2 == define(c1, "tablerowloop")
           c3 == define(c2, expression.name)
       IN /\ compiler' = c3
          /\ cnode' = [cnode EXCEPT !.pc = "body",
                                    !.symbol = define_index(c2, expression.name),
                                    !.top_of_loop = Len(current_instructions(c3))]
    /\ CompileRest

\* lines 240-245: enter the scope, declare the two locals, note the top of the loop
CompileEnter ==
    /\ cnode.pc = "enter"
    /\ LET c1 == enter_scope(compiler)
           c2 == define(c1, expression.name)
           c3 == define(c2, "tablerowloop")
       IN /\ compiler' = c3
          /\ cnode' = [cnode EXCEPT !.pc = "body",
                                    !.symbol = define_index(c1, expression.name),
                                    !.top_of_loop = Len(current_instructions(c3))]
    /\ CompileRest

\* line 247: compile the child body
CompileBody ==
    /\ cnode.pc = "body"
    /\ compiler' = block_compile(compiler, body)
    /\ cnode' = [cnode EXCEPT !.pc = "loop"]
    /\ CompileRest

\* compile_node that emits the jump before the step
CompileLoopEnd_JumpBeforeStep ==
    /\ cnode.pc = "loop"
    /\ compiler' = emit(emit(emit(compiler,
                                  Instr("JMP", cnode.top_of_loop, 0)),
                             Instr("STE", cnode.symbol, 0)),
                        Instr("STO", 0, 0))
    /\ cnode' = [cnode EXCEPT !.pc = "inspect"]
    /\ CompileRest

\* lines 249-252: step, jump to the top of the loop, scope exit
CompileLoopEnd ==
    /\ cnode.pc = "loop"
    /\ compiler' = emit(emit(emit(compiler,
                                  Instr("STE", cnode.symbol, 0)),
                             Instr("JMP", cnode.top_of_loop, 0)),
                        Instr("STO", 0, 0))
    /\ cnode' = [cnode EXCEPT !.pc = "inspect"]
    /\ CompileRest

\* lines 255-257: read the free symbols and the local count, assert two locals
CompileInspect ==
    /\ cnode.pc = "inspect"
    /\ LET scope == compiler.scopes[Len(compiler.scopes)]
       IN cnode' = [cnode EXCEPT !.free_symbols = scope.free_symbols,
                                 !.num_block_vars = Len(scope.locals),
                                 !.pc = IF Len(scope.locals) = 2 THEN "leave" ELSE "raised",
                                 !.error = IF Len(scope.locals) = 2 THEN "none"
                                           ELSE "AssertionError"]
    /\ UNCHANGED compiler
    /\ CompileRest

\* lines 259-269: leave the scope, pool the compiled block, load it
CompileLeave ==
    /\ cnode.pc = "leave"
    /\ LET instructions == current_instructions(compiler)
           c1 == leave_scope(compiler)
           compiled_block == [instructions |-> instructions,
                              num_locals |-> 2,
                              num_arguments |-> num_arguments(expression),
                              num_free |-> Len(cnode.free_symbols)]
           c2 == add_constant_block(c1, compiled_block)
       IN /\ compiler' = emit(c2, Instr("CONSTANT", Len(c1.constants), 0))
          /\ cnode' = [cnode EXCEPT !.pc = "operands", !.compiled_block = Len(c1.constants)]
    /\ CompileRest

\* lines 271-280: load the free variables, the group size or NIL, the sequence, TAB
CompileOperands ==
    /\ cnode.pc = "operands"
    /\ LET blk == compiler.constants[cnode.compiled_block + 1]
           c1 == load_reversed(compiler, cnode.free_symbols)
           c2 == IF expression.cols.kind # "absent"
                 THEN emit(c1, Instr("COLS", 0, 0))
                 ELSE emit(c1, Instr("NIL", 0, 0))
           c3 == emit(c2, Instr("ITER", 0, 0))
       IN compiler' = emit(c3, Instr("TAB", blk.num_arguments, blk.num_free))
    /\ cnode' = [cnode EXCEPT !.pc = "done"]
    /\ CompileRest

NextCompile ==
    \/ CompileEnter
    \/ CompileBody
    \/ CompileLoopEnd
    \/ CompileInspect
    \/ CompileLeave
    \/ CompileOperands

SpecCompile == InitCompile /\ [][NextCompile]_vars

(***************************************************************************)
(* The virtual machine, for the instructions compile_node emits.  A frame  *)
(* is a compiled block in execution: block -1 is the template's own        *)
(* stream, ip counts the instructions already executed.  Row and cell      *)
(* markup is written by TableRowDrop.step_write on entering the iteration  *)
(* and on every step, and by empty_exit_buffer on scope exit.              *)
(***************************************************************************)
VMBodies == {<<>>, <<"u">>}     \* child bodies run on the machine

MainFrame == [block |-> -1, ip |-> 0]

VMWaiting ==
    [pc |-> "wait", frames |-> <<>>, stack |-> <<>>, buffer |-> "",
     drop |-> NoObject, rest |-> <<>>, error |-> "none"]

\* the instructions of a frame
FrameCode(f) ==
    IF f.block = -1
    THEN compiler.scopes[1].instructions
    ELSE compiler.constants[f.block + 1].instructions

CurrentFrame == vm.frames[Len(vm.frames)]

Running == vm.pc = "run" /\ CurrentFrame.ip < Len(FrameCode(CurrentFrame))

\* the instruction about to execute
Fetch == FrameCode(CurrentFrame)[CurrentFrame.ip + 1]

\* the frames with the current one advanced by one instruction
Advance == [vm.frames EXCEPT ![Len(vm.frames)].ip = @ + 1]

Operand(kind, val) == [kind |-> kind, val |-> val]

\* the group size the machine gives the adapter: 1 when the operand is NIL
group_size(operand) == IF operand.kind = "nil" THEN 1 ELSE operand.val

InitVM ==
    /\ expression \in [name : Names, items : SeqsUpTo(Items, MaxItems), cols : ColsExpressions]
    /\ body \in VMBodies
    /\ compiler = [scopes |-> <<[NewScope EXCEPT !.locals = OuterNames]>>, constants |-> <<>>]
    /\ cnode = [pc |-> "enter", symbol |-> -1, top_of_loop |-> -1, free_symbols |-> <<>>,
                num_block_vars |-> -1, compiled_block |-> -1, error |-> "none"]
    /\ vm = VMWaiting
    /\ rpc = "eval"
    /\ loop_items = <<>>
    /\ cols = 0
    /\ loop_iter = <<>>
    /\ i = 0
    /\ j = 0
    /\ rdrop = NoObject
    /\ rbuffer = ""
    /\ rerror = "none"
    /\ rsteps = 0
    /\ args = [name |-> expression.name, length |-> 0, ncols |-> 1]
    /\ pc = "idle"
    /\ drop = NoObject
    /\ buffer = ""
    /\ error = "none"
    /\ nsteps = 0
    /\ ret = NoReturn

VMRest ==
    /\ UNCHANGED compileVars
    /\ UNCHANGED renderVars
    /\ UNCHANGED dropVars
    /\ UNCHANGED lookupVars

\* the machine starts on the stream compile_node finished
VMStart ==
    /\ cnode.pc = "done"
    /\ vm.pc = "wait"
    /\ vm' = [vm EXCEPT !.pc = "run", !.frames = <<MainFrame>>]
    /\ VMRest

\* CONSTANT k: push the pooled block
VMConstant ==
    /\ Running
    /\ Fetch.op = "CONSTANT"
    /\ vm' = [vm EXCEPT !.stack = Append(@, Operand("block", Fetch.a)), !.frames = Advance]
    /\ VMRest

\* a variable load: push the variable
VMLoad ==
    /\ Running
    /\ Fetch.op \in {"GETLOCAL", "GETFREE", "GETGLOBAL"}
    /\ vm' = [vm EXCEPT !.stack = Append(@, Operand("var", Fetch.a)), !.frames = Advance]
    /\ VMRest

\* the compiled group-size expression: push its value
VMCols ==
    /\ Running
    /\ Fetch.op = "COLS"
    /\ vm' = [vm EXCEPT !.stack = Append(@, expression.cols), !.frames = Advance]
    /\ VMRest

\* NIL: push the sentinel
VMNil ==
    /\ Running
    /\ Fetch.op = "NIL"
    /\ vm' = [vm EXCEPT !.stack = Append(@, Operand("nil", 0)), !.frames = Advance]
    /\ VMRest

\* the compiled loop expression: push the sequence
VMIter ==
    /\ Running
    /\ Fetch.op = "ITER"
    /\ vm' = [vm EXCEPT !.stack = Append(@, Operand("seq", Len(expression.items))),
                        !.frames = Advance]
    /\ VMRest

\* TAB argc freec: pop the sequence, the group size, the free variables and
\* the block; make the adapter; an empty sequence skips the block, otherwise
\* the first element is stepped and the block's frame pushed
VMTab ==
    /\ Running
    /\ Fetch.op = "TAB"
    /\ LET n == Len(vm.stack)
           freec == Fetch.b
           size == vm.stack[n - 1]
           blk == vm.stack[n - 2 - freec]
           items == expression.items
           popped == SubSeq(vm.stack, 1, n - 3 - freec)
       IN CASE size.kind = "str" ->
                 vm' = [vm EXCEPT !.pc = "raised", !.error = "LiquidTypeError",
                                  !.stack = popped]
            [] size.kind # "str" /\ TableRow_raises(Len(items), group_size(size)) # "none" ->
                 vm' = [vm EXCEPT !.pc = "raised", !.stack = popped,
                                  !.error = TableRow_raises(Len(items), group_size(size))]
            [] OTHER ->
                 LET made == TableRowDrop(expression.name, Len(items), group_size(size))
                 IN IF items = <<>>
                    THEN vm' = [vm EXCEPT !.stack = popped, !.frames = Advance,
                                          !.drop = made]
                    ELSE LET w == step_write(made, Head(items), vm.buffer)
                         IN vm' = [vm EXCEPT !.stack = popped,
                                             !.frames = Append(Advance,
                                                               [block |-> blk.val, ip |-> 0]),
                                             !.drop = w.drop,
                                             !.buffer = w.buffer,
                                             !.rest = Tail(items)]
    /\ VMRest

\* the compiled child body: consume its loads, write what the body renders
VMBody ==
    /\ Running
    /\ Fetch.op = "BODY"
    /\ vm' = [vm EXCEPT !.stack = <<>>,
                        !.buffer = @ \o block_render(vm.drop),
                        !.frames = Advance]
    /\ VMRest

\* STE slot: step to the next element, or leave the loop when none is left
VMStep ==
    /\ Running
    /\ Fetch.op = "STE"
    /\ IF vm.rest = <<>>
       THEN vm' = [vm EXCEPT !.frames = [@ EXCEPT ![Len(@)].ip = @ + 2]]
       ELSE LET w == step_write(vm.drop, Head(vm.rest), vm.buffer)
            IN vm' = [vm EXCEPT !.drop = w.drop, !.buffer = w.buffer,
                                !.rest = Tail(@), !.frames = Advance]
    /\ VMRest

\* JMP target
VMJump ==
    /\ Running
    /\ Fetch.op = "JMP"
    /\ vm' = [vm EXCEPT !.frames = [@ EXCEPT ![Len(@)].ip = Fetch.a]]
    /\ VMRest

\* STO: flush the pending closing markup, pop the frame, resume the caller
VMScopeExit ==
    /\ Running
    /\ Fetch.op = "STO"
    /\ LET e == empty_exit_buffer(vm.drop, vm.buffer)
       IN vm' = [vm EXCEPT !.drop = e.drop, !.buffer = e.buffer,
                           !.frames = SubSeq(@, 1, Len(@) - 1)]
    /\ VMRest

\* the template's stream is exhausted
VMHalt ==
    /\ vm.pc = "run"
    /\ Len(vm.frames) = 1
    /\ CurrentFrame.ip = Len(FrameCode(CurrentFrame))
    /\ vm' = [vm EXCEPT !.pc = "halted"]
    /\ VMRest

VMFinished == vm.pc \in {"halted", "raised"}

\* compile, run the compiled stream, then interpret the same node
NextVM ==
    \/ CompileEnter
    \/ CompileBody
    \/ CompileLoopEnd
    \/ CompileInspect
    \/ CompileLeave
    \/ CompileOperands
    \/ VMStart
    \/ VMConstant
    \/ VMLoad
    \/ VMCols
    \/ VMNil
    \/ VMIter
    \/ VMTab
    \/ VMBody
    \/ VMStep
    \/ VMJump
    \/ VMScopeExit
    \/ VMHalt
    \/ VMFinished /\ RenderEval
    \/ VMFinished /\ RenderRowOpen
    \/ VMFinished /\ RenderReturn
    \/ VMFinished /\ RenderCell
    \/ VMFinished /\ RenderBody
    \/ VMFinished /\ RenderRowClose

SpecVM == InitVM /\ [][NextVM]_vars

(***************************************************************************)
(* Helpers of the properties.                                              *)
(***************************************************************************)
\* number of occurrences of pat in the string s
CountOf(s, pat) ==
    Cardinality({p \in 1..(Len(s) - Len(pat) + 1) : SubSeq(s, p, p + Len(pat) - 1) = pat})

\* the markup of rows and cells written from positions alone: row r holds the
\* items at positions (r-1)*g + 1 .. min(r*g, n), the cell at column c of row r
\* holds the body of the item at position (r-1)*g + c
RowCount(n, g) == (n + g - 1) \div g
RowWidth(n, g, r) == Min(g, n - (r - 1) * g)

BodyAt(items, pos) == "{" \o items[pos] \o ":" \o ToString(pos) \o "}"

RECURSIVE CellsMarkup(_, _, _, _, _)
CellsMarkup(items, g, r, c, width) ==
    IF c > width
    THEN ""
    ELSE "<td class=\"col" \o ToString(c) \o "\">"
         \o BodyAt(items, (r - 1) * g + c)
         \o "</td>"
         \o CellsMarkup(items, g, r, c + 1, width)

RECURSIVE RowsMarkup(_, _, _)
RowsMarkup(items, g, r) ==
    IF r > RowCount(Len(items), g)
    THEN ""
    ELSE "<tr class=\"row" \o ToString(r) \o "\">"
         \o CellsMarkup(items, g, r, 1, RowWidth(Len(items), g, r))
         \o "</tr>"
         \o RowsMarkup(items, g, r + 1)

\* one row holding every item as a cell
OneRowMarkup(items) ==
    "<tr class=\"row1\">" \o CellsMarkup(items, Len(items), 1, 1, Len(items)) \o "</tr>"

Live == pc = "live" /\ args.ncols >= 1

(***************************************************************************)
(* C1                                                                      *)
(***************************************************************************)
\* C1 as stated: for total_length >= 0 and group_size >= 1, after exactly
\* total_length calls to step on a fresh object index == total_length and
\* rindex == 0, last is true on the final step and false after every earlier one.
C1_AsClaimed ==
    Live =>
      /\ nsteps = args.length =>
           /\ drop.tablerow.index = args.length
           /\ drop.tablerow.rindex = 0
           /\ (nsteps >= 1 => drop.tablerow.last)
      /\ (1 <= nsteps /\ nsteps < args.length) => ~drop.tablerow.last

\* C1 as amended: after exactly total_length calls to step index == total_length,
\* rindex == 1 and rindex0 == 0 (rindex is the 1-based reverse position), last is
\* true on the final step and false after every earlier step.
C1_FinalStep ==
    Live =>
      /\ nsteps = args.length =>
           /\ drop.tablerow.index = args.length
           /\ drop.tablerow.rindex = 1
           /\ drop.tablerow.rindex0 = 0
           /\ (nsteps >= 1 => drop.tablerow.last)
      /\ (1 <= nsteps /\ nsteps < args.length) => ~drop.tablerow.last

\* the final step of five items in groups of three
C1_Witness ==
    /\ Live
    /\ args.length = 5
    /\ args.ncols = 3
    /\ nsteps = 5
    /\ drop.tablerow.index0 = 4
    /\ drop.tablerow.rindex0 = 0
    /\ drop.tablerow.last
    /\ drop.tablerow.col = 2
    /\ ~drop.tablerow.col_last

(***************************************************************************)
(* C2                                                                      *)
(***************************************************************************)
\* C2: for total_length >= 0 and group_size >= 1, nrows is the ceiling of
\* total_length / group_size (the least n with n * group_size >= total_length)
\* at construction and after any number of step / step_write calls, and length
\* and ncols stay the constructor's arguments.
C2_RowCount ==
    Live =>
      /\ drop.tablerow.length = args.length
      /\ drop.tablerow.ncols = args.ncols
      /\ drop.tablerow.nrows * args.ncols >= args.length
      /\ (drop.tablerow.nrows - 1) * args.ncols < args.length
      /\ drop.tablerow.nrows >= 0

\* a partial last row, stepped past the end with markup written
C2_Witness ==
    /\ Live
    /\ args.length = 5
    /\ args.ncols = 3
    /\ drop.tablerow.nrows = 2
    /\ nsteps > args.length
    /\ buffer # ""

(***************************************************************************)
(* C3                                                                      *)
(***************************************************************************)
\* C3: after every call to step, for any group_size >= 1: 1 <= col <= group_size,
\* col == col0 + 1 with col0 == index0 mod group_size, col_first iff col == 1,
\* col_last iff col == group_size.
C3_ColumnInvariant ==
    (Live /\ nsteps >= 1) =>
      /\ 1 <= drop.tablerow.col
      /\ drop.tablerow.col <= args.ncols
      /\ drop.tablerow.col = drop.tablerow.col0 + 1
      /\ drop.tablerow.index0 = nsteps - 1
      /\ drop.tablerow.col0 = (nsteps - 1) % args.ncols
      /\ drop.tablerow.col_first <=> (drop.tablerow.col = 1)
      /\ drop.tablerow.col_last <=> (drop.tablerow.col = args.ncols)

\* the last column of a group of three, in the second row
C3_Witness ==
    /\ Live
    /\ args.ncols = 3
    /\ nsteps = 6
    /\ drop.tablerow.col = 3
    /\ drop.tablerow.col_last
    /\ ~drop.tablerow.col_first

(***************************************************************************)
(* C4                                                                      *)
(***************************************************************************)
\* C4: for every item sequence and group size g >= 1, the markup of the buffered
\* protocol (step_write per item, the body after each call, empty_exit_buffer at
\* the end) is the same string as the markup render_to_output wrote.
C4_Lookahead ==
    (pc = "p_done" /\ expression.cols.kind = "int") => buffer = rbuffer

\* five items in groups of three: the last row is closed by the lookahead on
\* index == length, not by col == ncols
C4_Witness ==
    /\ pc = "p_done"
    /\ expression.cols = [kind |-> "int", val |-> 3]
    /\ expression.items = <<"a", "b", "a", "a", "b">>
    /\ drop.tablerow.col = 2
    /\ drop.exit = <<>>
    /\ CountOf(buffer, "</tr>") = 2

(***************************************************************************)
(* C5                                                                      *)
(***************************************************************************)
\* C5: with a group size g >= 1, render_to_output on n items writes, for each
\* chunk r = 1..ceil(n/g) in order, an opening row tag numbered r, for each item
\* of the chunk at column c = 1.. an opening cell tag numbered c, the body
\* rendered with the metadata stepped to exactly that item, a closing cell tag,
\* and then a closing row tag.
C5_Chunks ==
    (rpc = "done" /\ expression.cols.kind = "int") =>
      /\ rbuffer = RowsMarkup(expression.items, expression.cols.val, 1)
      /\ rsteps = Len(expression.items)

\* [1,2,3,4,5] with g = 3: row1 holds cells 1..3, row2 holds cells 4..5
C5_Witness ==
    /\ rpc = "done"
    /\ expression.cols = [kind |-> "int", val |-> 3]
    /\ expression.items = <<"a", "b", "a", "a", "b">>
    /\ rbuffer = "<tr class=\"row1\">"
                 \o "<td class=\"col1\">{a:1}</td>"
                 \o "<td class=\"col2\">{b:2}</td>"
                 \o "<td class=\"col3\">{a:3}</td>"
                 \o "</tr>"
                 \o "<tr class=\"row2\">"
                 \o "<td class=\"col1\">{a:4}</td>"
                 \o "<td class=\"col2\">{b:5}</td>"
                 \o "</tr>"

C7_AsClaimed ==
    (args.ncols < 1 /\ pc \in {"new", "live", "raised"}) =>
      /\ pc # "live"
      /\ drop = NoObject
      /\ pc = "raised" => error = "InvalidArgument"

(***************************************************************************)
(* C8                                                                      *)
(***************************************************************************)
\* C8 as stated: a group-size expression that evaluates to a non-integer aborts
\* render_to_output with LiquidTypeError, nothing written and no step made.
C8_AsClaimed ==
    expression.cols.kind = "str" =>
      /\ rpc \in {"eval", "raised"}
      /\ rpc = "raised" => rerror = "LiquidTypeError"
      /\ rbuffer = ""
      /\ rsteps = 0

(***************************************************************************)
(* C9                                                                      *)
(***************************************************************************)
\* C9: for an empty sequence and any positive group size render_to_output
\* writes no markup at all, makes no call to step and completes without error.
C9_EmptySequence ==
    (expression.items = <<>> /\ expression.cols.kind = "int" /\ expression.cols.val >= 1) =>
      /\ rbuffer = ""
      /\ rsteps = 0
      /\ rerror = "none"
      /\ rpc \in {"eval", "row", "done"}

\* the render of an empty sequence in groups of three has returned
C9_Witness ==
    /\ expression.items = <<>>
    /\ expression.cols = [kind |-> "int", val |-> 3]
    /\ rpc = "done"
    /\ rdrop.tablerow.nrows = 0

(***************************************************************************)
(* C10                                                                     *)
(***************************************************************************)
\* C10 as stated: a render whose iterations exceed the configured maximum
\* aborts with LoopIterationLimitError and writes nothing after that point, so
\* no iteration beyond the maximum is ever rendered.
C10_AsClaimed ==
    /\ rsteps <= LoopIterationLimit
    /\ (Len(loop_items) > LoopIterationLimit /\ rpc \notin {"eval", "row", "cell", "body"})
         => (rpc = "raised" /\ rerror = "LoopIterationLimitError")

(***************************************************************************)
(* C16                                                                     *)
(***************************************************************************)
\* what a step_write call on the current drop must append to the buffer and
\* leave pending, written from the fields before and after the call
PendingMarkup == IF drop.exit # <<>> THEN drop.exit[Len(drop.exit)] ELSE ""
RestOfExit == IF drop.exit # <<>> THEN SubSeq(drop.exit, 1, Len(drop.exit) - 1) ELSE <<>>

\* a step_write call: the only call that steps the metadata and writes
IsStepWrite == pc = "live" /\ nsteps' = nsteps + 1 /\ buffer' # buffer

\* C16: each step_write first flushes the pending closing markup if there is
\* one, then steps the metadata, then writes an opening row tag numbered row
\* iff col == 1 and row <= nrows, then an opening cell tag numbered col, and
\* pushes exactly one pending closing string: "</td></tr>" iff col == ncols or
\* index == length, "</td>" otherwise.
C16_StepWriteOrder ==
    [][IsStepWrite =>
        LET tr == drop'.tablerow
            rowtag == IF tr.col = 1 /\ tr.row <= tr.nrows
                      THEN "<tr class=\"row" \o ToString(tr.row) \o "\">"
                      ELSE ""
            celltag == "<td class=\"col" \o ToString(tr.col) \o "\">"
            closing == IF tr.col = tr.ncols \/ tr.index = tr.length
                       THEN "</td></tr>"
                       ELSE "</td>"
        IN /\ tr.index = drop.tablerow.index + 1
           /\ buffer' = buffer \o PendingMarkup \o rowtag \o celltag
           /\ drop'.exit = Append(RestOfExit, closing)
      ]_vars

\* a second step_write has flushed "</td>" and opened the next cell of the row
C16_Witness ==
    /\ pc = "live"
    /\ args.ncols = 3
    /\ args.length = 5
    /\ nsteps = 2
    /\ buffer = "<tr class=\"row1\"><td class=\"col1\"></td><td class=\"col2\">"
    /\ drop.exit = <<"</td>">>

(***************************************************************************)
(* C17                                                                     *)
(***************************************************************************)
\* C17: in every state reached by any interleaving of step_write, step and
\* empty_exit_buffer the pending stack holds at most one entry, and
\* empty_exit_buffer on an empty stack writes nothing and changes nothing.
C17_AtMostOnePending ==
    pc = "live" =>
      /\ Len(drop.exit) <= 1
      /\ drop.exit = <<>> =>
           empty_exit_buffer(drop, buffer) = [drop |-> drop, buffer |-> buffer]

\* one entry pending after several calls, and an emptied stack after a flush
C17_Witness ==
    /\ pc = "live"
    /\ nsteps >= 3
    /\ drop.exit = <<>>
    /\ CountOf(buffer, "</td>") >= 2

(***************************************************************************)
(* C18                                                                     *)
(***************************************************************************)
\* C18: for group_size >= 1 every step increments row by exactly 1 when the
\* new col == 1 and leaves it unchanged otherwise, so after k >= 1 steps
\* row == ceil(k / group_size), and row <= nrows while k <= total_length.
C18_RowAdvance ==
    [][(Live /\ nsteps' = nsteps + 1) =>
        LET tr == drop'.tablerow
        IN /\ tr.row = drop.tablerow.row + (IF tr.col = 1 THEN 1 ELSE 0)
           /\ (tr.row - 1) * args.ncols < nsteps'
           /\ nsteps' <= tr.row * args.ncols
           /\ nsteps' <= args.length => tr.row <= tr.nrows
      ]_vars

\* the fourth step of five in groups of three opened the second row
C18_Witness ==
    /\ Live
    /\ args.ncols = 3
    /\ args.length = 5
    /\ nsteps = 4
    /\ drop.tablerow.col = 1
    /\ drop.tablerow.row = 2
    /\ drop.tablerow.nrows = 2

(***************************************************************************)
(* C19                                                                     *)
(***************************************************************************)
\* C19 as stated: after every step rindex == total_length - index and
\* rindex0 == total_length - index0.
C19_AsClaimed ==
    (pc = "live" /\ nsteps >= 1) =>
      /\ drop.tablerow.rindex = args.length - drop.tablerow.index
      /\ drop.tablerow.rindex0 = args.length - drop.tablerow.index0

\* C19 as amended: after every step rindex == total_length - index + 1 and
\* rindex0 == total_length - index0 - 1, that is rindex == total_length - index0
\* and rindex0 == total_length - index.
C19_ReversePositions ==
    (pc = "live" /\ nsteps >= 1) =>
      /\ drop.tablerow.index = nsteps
      /\ drop.tablerow.index0 = nsteps - 1
      /\ drop.tablerow.rindex = args.length - drop.tablerow.index + 1
      /\ drop.tablerow.rindex0 = args.length - drop.tablerow.index0 - 1

\* the second of five steps: index 2, rindex 4, index0 1, rindex0 3
C19_Witness ==
    /\ pc = "live"
    /\ args.length = 5
    /\ nsteps = 2
    /\ drop.tablerow.index = 2
    /\ drop.tablerow.rindex = 4
    /\ drop.tablerow.index0 = 1
    /\ drop.tablerow.rindex0 = 3

(***************************************************************************)
(* C20                                                                     *)
(***************************************************************************)
\* C20 as stated: whenever render_to_output renders the child body, the column
\* number of the enclosing cell tag equals tablerowloop.col and the row number
\* of the enclosing row tag equals the metadata's row, with and without a
\* group-size expression.
C20_AsClaimed ==
    rpc = "body" =>
      /\ j + 1 = rdrop.tablerow.col
      /\ i + 1 = rdrop.tablerow.row

(***************************************************************************)
(* C12                                                                     *)
(***************************************************************************)
\* C12 as stated: for every loop variable name and every key, contains(key) is
\* true iff key is the loop variable name or "tablerowloop"; lookup of the
\* loop-variable key returns the metadata's current item, lookup of the
\* metadata key returns the metadata object, lookup of any other key raises
\* KeyError; lookups change neither the adapter nor the metadata.
C12_AsClaimed ==
    [][/\ ret'.called = "TableRowDrop.__contains__" =>
            /\ ret'.result.value <=> (ret'.key = args.name \/ ret'.key = "tablerowloop")
            /\ drop' = drop
       /\ ret'.called = "TableRowDrop.__getitem__" =>
            /\ drop' = drop
            /\ ret'.key = args.name =>
                 /\ ret'.result.raises = "none"
                 /\ ret'.result.is = "item"
                 /\ ret'.result.value = drop.tablerow.item
            /\ ret'.key = "tablerowloop" =>
                 /\ ret'.result.raises = "none"
                 /\ (ret'.result.is = "TableRow" => ret'.result.value = drop.tablerow)
            /\ ret'.key \notin {args.name, "tablerowloop"} =>
                 ret'.result.raises = "KeyError"
      ]_vars

(***************************************************************************)
(* C13                                                                     *)
(***************************************************************************)
\* C13: the metadata object maps exactly the keys length, index, index0,
\* rindex, rindex0, first, last, col, col0, col_first, col_last to the current
\* value of the field; any other key (row, nrows, ncols, item, name, ...)
\* raises KeyError; a lookup leaves every field unchanged.
C13_FixedKeys ==
    [][ret'.called = "TableRow.__getitem__" =>
         /\ drop' = drop
         /\ IF ret'.key \in {"length", "index", "index0", "rindex", "rindex0", "first",
                             "last", "col", "col0", "col_first", "col_last"}
            THEN /\ ret'.result.raises = "none"
                 /\ ret'.result.value = drop.tablerow[ret'.key]
            ELSE ret'.result.raises = "KeyError"
      ]_vars

\* after a step, col_last was read as TRUE; the row counter is not a key
C13_Witness ==
    /\ pc = "live"
    /\ nsteps = 2
    /\ args.ncols = 2
    /\ ret.called = "TableRow.__getitem__"
    /\ \/ ret.key = "col_last" /\ ret.result.raises = "none" /\ ret.result.value = TRUE
       \/ ret.key = "row" /\ ret.result.raises = "KeyError"

(***************************************************************************)
(* C14                                                                     *)
(***************************************************************************)
\* the names of the enclosing scope the body captures, in first-reference order
RECURSIVE Captured(_, _)
Captured(refs, seen) ==
    IF refs = <<>>
    THEN seen
    ELSE Captured(Tail(refs),
                  IF /\ Head(refs) \notin {expression.name, "tablerowloop"}
                     /\ LastIndexOf(OuterNames, Head(refs)) # 0
                     /\ LastIndexOf(seen, Head(refs)) = 0
                  THEN Append(seen, Head(refs))
                  ELSE seen)

\* C14: inside the new scope compile_node emits the compiled body, then STE on
\* the loop variable's slot, then JMP to the offset recorded at the top of the
\* body, then STO; in the enclosing stream it then emits CONSTANT of the
\* block's pool index, one load per captured free variable in reverse capture
\* order, the compiled group size or a single NIL, the compiled sequence, and
\* last exactly one TAB carrying (num_arguments, num_free), num_free being the
\* number of free-variable loads emitted.
C14_EmissionOrder ==
    cnode.pc = "done" =>
      LET blk == compiler.constants[Len(compiler.constants)]
          ins == blk.instructions
          n == Len(ins)
          main == compiler.scopes[1].instructions
          free == Captured(body, <<>>)
          nf == Len(free)
      IN /\ n = Len(body) + 4
         /\ \A k \in 1..Len(body) : ins[k].op \in {"GETLOCAL", "GETFREE", "GETGLOBAL"}
         /\ ins[n - 3].op = "BODY"
         /\ ins[n - 2] = Instr("STE", 0, 0)
         /\ ins[n - 1] = Instr("JMP", cnode.top_of_loop, 0)
         /\ cnode.top_of_loop = 0
         /\ ins[n] = Instr("STO", 0, 0)
         /\ Len(main) = nf + 4
         /\ main[1] = Instr("CONSTANT", Len(compiler.constants) - 1, 0)
         /\ \A t \in 1..nf :
              main[1 + t] = Instr("GETLOCAL", LastIndexOf(OuterNames, free[nf - t + 1]) - 1, 0)
         /\ main[nf + 2].op = (IF expression.cols.kind = "absent" THEN "NIL" ELSE "COLS")
         /\ main[nf + 3].op = "ITER"
         /\ main[nf + 4] = Instr("TAB", blk.num_arguments, nf)
         /\ blk.num_free = nf
         /\ Cardinality({k \in 1..Len(main) : main[k].op = "TAB"}) = 1

\* a body that references v, then u, with no group size: the loads are u's
\* slot after v's, reversed, before NIL
C14_Witness ==
    /\ cnode.pc = "done"
    /\ expression.name = "x"
    /\ expression.cols.kind = "absent"
    /\ body = <<"v", "u">>
    /\ compiler.scopes[1].instructions =
         <<Instr("CONSTANT", 0, 0), Instr("GETLOCAL", 0, 0), Instr("GETLOCAL", 1, 0),
           Instr("NIL", 0, 0), Instr("ITER", 0, 0), Instr("TAB", 0, 2)>>

C11_AsClaimed ==
    (vm.pc = "halted" /\ rpc = "done") => vm.buffer = rbuffer

(***************************************************************************)
(* C21                                                                     *)
(***************************************************************************)
\* C21: in every reachable state of the metadata object, the freshly
\* constructed state and the states after more than total_length steps
\* included, first == (index0 == 0), last == (rindex0 == 0),
\* col_first == (col == 1) and col_last == (col == group_size), for every
\* total_length >= 0 and group_size >= 1.
C21_AsClaimed ==
    Live =>
      /\ drop.tablerow.first <=> (drop.tablerow.index0 = 0)
      /\ drop.tablerow.last <=> (drop.tablerow.rindex0 = 0)
      /\ drop.tablerow.col_first <=> (drop.tablerow.col = 1)
      /\ drop.tablerow.col_last <=> (drop.tablerow.col = drop.tablerow.ncols)

====
